---- MODULE Spec2Model ----
(***************************************************************************)
(* Model of the StockDashboard prediction pipeline:                        *)
(*   src/ai_groq_predict_groq.py  rate limiter, feature preparation,       *)
(*                                inference call, response parsing, main   *)
(*   src/update_eps.py            forward-EPS lookup with retries          *)
(*                                                                         *)
(* Time is counted in ticks of 0.1 s, the resolution of the limiter's      *)
(* epsilon: 60 s is 600 ticks and 0.1 s is 1 tick.                          *)
(* Python values are tagged records: None, Str(sequence of words),         *)
(* Num(n).  A dict is a function whose DOMAIN is its set of keys.          *)
(***************************************************************************)
EXTENDS Integers, Sequences, FiniteSets, TLC

VARIABLES
    events,          \* main: the loaded input list (line 217-219)
    pc,              \* main: position in the run
    rows,            \* main: enriched records (line 223)
    predictions,     \* main: prediction records (line 243)
    output,          \* the artifact written at line 257, or NotWritten
    error,           \* the exception that ended the run, or "none"
    req_timestamps,  \* module global deque (line 61)
    clock,           \* time.time(), in ticks
    busy,            \* time spent outside requested sleeps (bounded by MaxBusy)
    pausedAt,        \* history: the calls (1st, 2nd, ...) that slept at line 71
    lastWait,        \* history: the last sleep duration computed (line 69)
    acquired,        \* history: every timestamp ever appended at line 72
    raw,             \* call_groq: the latest raw model text (line 183)
    responses,       \* history: number of responses the API returned
    apiLog,          \* history: outcome of every client.chat.completions.create
    historyCalls,    \* history: tk.history() calls made for each entity reached
    tpc,             \* threads: each caller's position in throttle_requests
    tnow,            \* threads: each caller's local `now` (line 64)
    twait,           \* threads: each caller's local `wait` (line 69)
    twake,           \* threads: when each sleeping caller's time.sleep returns
    tcalls,          \* threads: calls of throttle_requests each caller completed
    params,          \* update_eps.py: the settings of lines 13-16
    epc,             \* safe_fetch_forward_eps: position
    attempt,         \* safe_fetch_forward_eps: loop variable (line 27)
    lookups,         \* history: what each ticker.info lookup gave
    slept,           \* history: the delays passed to time.sleep (line 44)
    epsResult,       \* safe_fetch_forward_eps: the value returned
    data,            \* update_events_with_eps: the list loaded at line 53
    symbolsLeft,     \* update_events_with_eps: symbols the loop of line 66 has not yet visited
    eps_cache,       \* update_events_with_eps: the dict of line 64
    fetchCalls,      \* history: every safe_fetch_forward_eps call, with its result
    upc,             \* update_events_with_eps: position
    sentIn,          \* purpose_sentiment: its two arguments
    sentOut,         \* purpose_sentiment: what it returned, or NotScored
    fpc,             \* fetch_and_save.py: position in main / fetch_events
    retries,         \* fetch_events: its parameter (line 29)
    fattempt,        \* fetch_events: loop variable (line 37)
    fetchLog,        \* history: what each GET of API_URL gave (lines 40-42)
    fresult,         \* fetch_events: the value returned
    saved            \* main: what was written to data/events.json, or NotWritten

pipeVars == <<events, pc, rows, predictions, output, error, raw, responses, apiLog,
              historyCalls>>
limVars  == <<req_timestamps, clock, busy, pausedAt, lastWait, acquired>>
thrVars  == <<tpc, tnow, twait, twake, tcalls>>
epsVars  == <<params, epc, attempt, lookups, slept, epsResult>>
updVars  == <<data, symbolsLeft, eps_cache, fetchCalls, upc>>
sentVars == <<sentIn, sentOut>>
fetchVars == <<fpc, retries, fattempt, fetchLog, fresult, saved>>
vars     == <<pipeVars, limVars, thrVars, epsVars, updVars, sentVars, fetchVars>>

----------------------------------------------------------------------------
(* Bounds of the model *)

MaxEvents == 2      \* longest input list of the detailed pipeline
BatchSize == 35     \* length of the input list of the batch run
MaxBusy   == 601    \* ticks that may elapse outside requested sleeps
MaxRawLen == 4      \* longest raw model text, in tokens

----------------------------------------------------------------------------
(* Python values *)

None     == [t |-> "None"]
Str(s)   == [t |-> "str", s |-> s]
Num(n)   == [t |-> "num", n |-> n]
Float    == [t |-> "float"]          \* some float; its value is not modelled
List(s)  == [t |-> "list", items |-> s]

IsStr(v) == v.t = "str"
Truthy(v) == CASE v.t = "None" -> FALSE
               [] v.t = "str"  -> v.s # <<>>
               [] v.t = "num"  -> v.n # 0
               [] OTHER        -> TRUE

EmptyDict == [k \in {} |-> None]
Merge(a, b) == [k \in DOMAIN a \cup DOMAIN b |-> IF k \in DOMAIN b THEN b[k] ELSE a[k]]

NotWritten == "not written"

----------------------------------------------------------------------------
(* Rate limiter: src/ai_groq_predict_groq.py lines 60-72 *)

MAX_REQS_PER_MIN == 30
WINDOW  == 600      \* the literal 60 (seconds) of lines 66 and 69
EPSILON == 1        \* the literal 0.1 (seconds) of line 69

PurgeNothing(q, now) == q
\* lines 66-67: while req_timestamps and now - req_timestamps[0] > 60: popleft()
RECURSIVE Purge(_, _)
Purge(q, now) ==
    IF q # <<>> /\ now - Head(q) > WINDOW THEN Purge(Tail(q), now) ELSE q

NeedsWaitOffByOne(q) == Len(q) > MAX_REQS_PER_MIN
\* line 68: if len(req_timestamps) >= MAX_REQS_PER_MIN
NeedsWait(q) == Len(q) >= MAX_REQS_PER_MIN

WaitForElapsed(q, now) == (now - Head(q)) + EPSILON
\* line 69: wait = 60 - (now - req_timestamps[0]) + 0.1
WaitFor(q, now) == WINDOW - (now - Head(q)) + EPSILON

----------------------------------------------------------------------------
(* Helpers: src/ai_groq_predict_groq.py lines 88-167 *)

\* Date strings dateutil can parse, with the calendar day they denote.
ParsableDates == {<<"2026-12-01">>, <<"05-Dec-2026">>}
DateDay(s) == IF s = <<"2026-12-01">> THEN 335 ELSE 339

\* lines 88-99: None for a falsy argument, None when parsing raises,
\* otherwise (parsed - today).days
days_to_event(date_str, today) ==
    IF ~Truthy(date_str) THEN None
    ELSE IF IsStr(date_str) /\ date_str.s \in ParsableDates
         THEN Num(DateDay(date_str.s) - today)
         ELSE None

\* lines 101-134.  hist is what tk.history() did: it raised (exc), or it
\* returned `rows` samples of which `closes` have a Close value.
fetch_price_features(hist) ==
    IF hist.exc THEN EmptyDict
    ELSE IF hist.rows = 0 THEN EmptyDict
    ELSE IF hist.closes = 0 THEN EmptyDict
    ELSE [last_price |-> Float,
          pct_7      |-> IF hist.closes > 6 THEN Float ELSE None,
          pct_30     |-> IF hist.closes > 22 THEN Float ELSE None,
          sma20      |-> IF hist.closes >= 20 THEN Float ELSE None,
          vol_30     |-> IF hist.rows >= 30 THEN Float ELSE None]

\* lines 103-105 and 132-134: tk.history() is called once inside one try;
\* whatever it does (hist), no further call is made
HistoryAttempts(hist) == 1

\* str.lower() on one word
Lower(w) == CASE w = "Dividend" -> "dividend"
              [] w = "Results"  -> "results"
              [] w = "Rights"   -> "rights"
              [] OTHER          -> w
LowerAll(t) == [i \in 1..Len(t) |-> Lower(t[i])]

\* `kw in t` for a keyword of one or more words
Contains(t, kw) ==
    \E i \in 1..Len(t) : i + Len(kw) - 1 <= Len(t) /\ SubSeq(t, i, i + Len(kw) - 1) = kw

DilutionTerms == {<<"rights", "issue">>, <<"fund", "raising">>,
                  <<"preferential">>, <<"capital", "raise">>}

purpose_sentiment_elif(purpose, bm_desc) ==
    LET t   == LowerAll(purpose.s \o bm_desc.s)
        div == Contains(t, <<"dividend">>)
        res == ~div /\ Contains(t, <<"results">>)
        dil == ~div /\ ~res /\ \E x \in DilutionTerms : Contains(t, x)
        score == (IF div THEN 20 ELSE 0) + (IF res THEN 5 ELSE 0) - (IF dil THEN 30 ELSE 0)
        reasons == (IF div THEN <<"dividend mentioned">> ELSE <<>>)
                   \o (IF dil THEN <<"dilution-related terms">> ELSE <<>>)
    IN  <<Num(score), Str(reasons)>>
\* lines 136-150, for two str arguments; the score is in hundredths.
\* (purpose + " " + bm_desc).lower(): the words of both, in order.
purpose_sentiment(purpose, bm_desc) ==
    LET t   == LowerAll(purpose.s \o bm_desc.s)
        div == Contains(t, <<"dividend">>)
        res == Contains(t, <<"results">>)
        dil == \E x \in DilutionTerms : Contains(t, x)
        score == (IF div THEN 20 ELSE 0) + (IF res THEN 5 ELSE 0) - (IF dil THEN 30 ELSE 0)
        reasons == (IF div THEN <<"dividend mentioned">> ELSE <<>>)
                   \o (IF dil THEN <<"dilution-related terms">> ELSE <<>>)
    IN  <<Num(score), Str(reasons)>>

\* line 137 raises TypeError unless both operands of + are str
SentimentRaises(purpose, bm_desc) == ~IsStr(purpose) \/ ~IsStr(bm_desc)

\* lines 152-162: the fixed instruction and the serialized payload
SYSTEM_MSG == "You are a financial assistant. Return ONLY JSON"
build_prompt(detail) == <<SYSTEM_MSG, [data |-> detail]>>

\* A raw model text is a sequence of tokens: the two braces and "buy", the
\* text of the members of a complete prediction object.
Tokens == {"{", "}", "buy"}

Positions(text, tok) == {i \in 1..Len(text) : text[i] = tok}
Min(S) == CHOOSE x \in S : \A y \in S : x <= y
Max(S) == CHOOSE x \in S : \A y \in S : x >= y

\* line 166: re.search(r"\{.*\}", text, re.DOTALL): from the first "{" to the
\* last "}" after it
HasMatch(text) ==
    /\ Positions(text, "{") # {}
    /\ \E j \in Positions(text, "}") : j > Min(Positions(text, "{"))
MatchOf(text) == SubSeq(text, Min(Positions(text, "{")), Max(Positions(text, "}")))

\* json.loads on a token sequence: only "{}" and "{<members>}" are JSON
Decodes(sub) == sub = <<"{", "}">> \/ sub = <<"{", "buy", "}">>
BuyPrediction == [recommendation |-> Str(<<"buy">>), confidence |-> Num(80),
                  rationale |-> Str(<<"x">>), action |-> Str(<<"y">>),
                  features_used |-> List(<<>>)]
JsonLoads(sub) == IF sub = <<"{", "}">> THEN EmptyDict ELSE BuyPrediction

\* lines 164-167: [raised, value]; value None when there is no match
extract_json(text) ==
    IF ~HasMatch(text) THEN [raised |-> FALSE, value |-> None]
    ELSE IF Decodes(MatchOf(text))
         THEN [raised |-> FALSE, value |-> JsonLoads(MatchOf(text))]
         ELSE [raised |-> TRUE, value |-> None]

\* lines 189-195 (confidence in hundredths)
FALLBACK == [recommendation |-> Str(<<"hold">>), confidence |-> Num(50),
             rationale |-> Str(<<"Model returned invalid JSON">>),
             action |-> Str(<<"Hold position">>), features_used |-> List(<<>>)]

\* line 187: `not parsed` is true of None and of an empty dict
Falsy(parsed) == parsed = None \/ parsed = EmptyDict

\* lines 186-198: the prediction call_groq returns for a raw text that
\* extract_json did not raise on
ParsedOrFallback(text) ==
    IF Falsy(extract_json(text).value) THEN FALLBACK ELSE extract_json(text).value

----------------------------------------------------------------------------
(* Input lists *)

Absent == [t |-> "absent"]       \* the key is not in the dict
Opt(k, v) == IF v = Absent THEN EmptyDict ELSE [x \in {k} |-> v]

Symbols   == {Str(<<"A">>), Str(<<"B">>)}
DateVals  == {Absent, None, Str(<<>>), Str(<<"soon">>), Str(<<"2026-12-01">>)}
PurposeVals == {Absent, None, Str(<<"Dividend">>)}
BmDescVals  == {Absent, None, Str(<<"Rights", "issue">>)}

Entity(sym, d, p, b) ==
    Merge(Merge(Merge([symbol |-> sym, company |-> Str(<<"Co">>)],
                      Opt("date", d)), Opt("purpose", p)), Opt("bm_desc", b))

\* the well-formed entity of every symbol, and symbol A with one of its three
\* fields varied at a time
GoodDate    == Str(<<"2026-12-01">>)
GoodPurpose == Str(<<"Dividend">>)
GoodBmDesc  == Str(<<"Rights", "issue">>)
Entities ==
    {Entity(sym, GoodDate, GoodPurpose, GoodBmDesc) : sym \in Symbols}
    \cup {Entity(Str(<<"A">>), d, GoodPurpose, GoodBmDesc) : d \in DateVals}
    \cup {Entity(Str(<<"A">>), GoodDate, p, GoodBmDesc) : p \in PurposeVals}
    \cup {Entity(Str(<<"A">>), GoodDate, GoodPurpose, b) : b \in BmDescVals}

RECURSIVE ListsUpTo(_, _)
ListsUpTo(S, n) ==
    IF n = 0 THEN {<<>>}
    ELSE LET shorter == ListsUpTo(S, n - 1)
         IN  shorter \cup {Append(l, e) : l \in {x \in shorter : Len(x) = n - 1}, e \in S}

\* the batch: BatchSize well-formed entities with distinct symbols
BatchEntity(i) == Entity(Str(<<ToString(i)>>), GoodDate, GoodPurpose, GoodBmDesc)
BatchEvents == [i \in 1..BatchSize |-> BatchEntity(i)]

----------------------------------------------------------------------------
(* What the outside world may do in one run *)

FullHist  == [exc |-> FALSE, rows |-> 30, closes |-> 30]
HistOutcomes == {[exc |-> TRUE, rows |-> 0, closes |-> 0],
                 [exc |-> FALSE, rows |-> 0, closes |-> 0],
                 [exc |-> FALSE, rows |-> 25, closes |-> 21],
                 FullHist}
RawTexts == ListsUpTo(Tokens, MaxRawLen)
\* one raw text of each kind: no braces, "{}", a complete object, and a
\* brace-delimited text that is not JSON
ProbeTexts == {<<"buy">>, <<"{", "}">>, <<"{", "buy", "}">>, <<"{", "{", "}">>}

Env      == [hist |-> HistOutcomes, today |-> {330}, api |-> {"ok", "error"},
             raw |-> ProbeTexts, dur |-> {0}]
ParserEnv == [hist |-> {FullHist}, today |-> {330}, api |-> {"ok", "error"},
              raw |-> RawTexts, dur |-> {0}]
BatchEnv == [hist |-> {FullHist}, today |-> {330}, api |-> {"ok", "error"},
             raw |-> {<<"{", "buy", "}">>}, dur |-> {0, 300, 601}]

----------------------------------------------------------------------------
(* main: src/ai_groq_predict_groq.py lines 204-259 *)

\* where main goes after n enriched records / n prediction records
AfterFeaturesEager(n) == "throttle"
AfterFeatures(n) ==
    IF n < Len(events) THEN "features"
    ELSE IF Len(events) = 0 THEN "save" ELSE "throttle"
AfterPredictionUnthrottled(n) == IF n < Len(rows) THEN "call" ELSE "save"
AfterPrediction(n) == IF n < Len(rows) THEN "throttle" ELSE "save"

InitLimiter ==
    /\ req_timestamps = <<>>
    /\ clock = 0
    /\ busy = 0
    /\ pausedAt = {}
    /\ lastWait = 0
    /\ acquired = <<>>

\* src/update_eps.py lines 13-16, delays in ticks of 0.1 s
MAX_RETRIES    == 3
BASE_DELAY     == 15     \* 1.5 s
BACKOFF_FACTOR == 2
RANDOM_JITTER  == 3      \* 0.3 s
ProgramParams ==
    [MAX_RETRIES |-> MAX_RETRIES, BASE_DELAY |-> BASE_DELAY,
     BACKOFF_FACTOR |-> BACKOFF_FACTOR, RANDOM_JITTER |-> RANDOM_JITTER]
\* other settings of the same four lines: a jitter bound above the base
\* delay, fewer and more retries, no backoff growth
ParamSettings ==
    {ProgramParams,
     [ProgramParams EXCEPT !.BASE_DELAY = 2],
     [ProgramParams EXCEPT !.MAX_RETRIES = 2, !.RANDOM_JITTER = 1],
     [ProgramParams EXCEPT !.MAX_RETRIES = 4, !.BACKOFF_FACTOR = 1, !.BASE_DELAY = 4]}

\* the parts of the program a specification does not run
ThreadsOff ==
    /\ tpc = <<>> /\ tnow = <<>> /\ twait = <<>> /\ twake = <<>> /\ tcalls = <<>>
EpsOff ==
    /\ params = ProgramParams
    /\ epc = "off" /\ attempt = 0 /\ lookups = <<>> /\ slept = <<>>
    /\ epsResult = None
UpdateOff ==
    /\ data = <<>> /\ symbolsLeft = {} /\ eps_cache = EmptyDict
    /\ fetchCalls = <<>> /\ upc = "off"
NoArgs    == [purpose |-> None, bm_desc |-> None]
NotScored == <<>>
SentimentOff ==
    /\ sentIn = NoArgs /\ sentOut = NotScored
NothingSaved == [t |-> "not written"]
FetchOff ==
    /\ fpc = "off" /\ retries = 0 /\ fattempt = 0 /\ fetchLog = <<>>
    /\ fresult = None /\ saved = NothingSaved
PipelineOff ==
    /\ events = <<>> /\ pc = "off" /\ rows = <<>> /\ predictions = <<>>
    /\ output = NotWritten /\ error = "none" /\ raw = <<>> /\ responses = 0
    /\ apiLog = <<>> /\ historyCalls = <<>>

InitRun(evs) ==
    /\ ThreadsOff
    /\ EpsOff
    /\ UpdateOff
    /\ SentimentOff
    /\ events = evs
    /\ pc = IF Len(evs) = 0 THEN "save" ELSE "features"
    /\ rows = <<>>
    /\ predictions = <<>>
    /\ output = NotWritten
    /\ error = "none"
    /\ raw = <<>>
    /\ responses = 0
    /\ apiLog = <<>>
    /\ historyCalls = <<>>
    /\ InitLimiter
    /\ FetchOff

Init      == \E evs \in ListsUpTo(Entities, MaxEvents) : InitRun(evs)
InitBatch == InitRun(BatchEvents)
InitParser == \E sym \in Symbols :
                  InitRun(<<Entity(sym, GoodDate, GoodPurpose, GoodBmDesc)>>)

\* the exception lines 226-231 raise for entity ev, or "none"
FeatureError(ev) ==
    IF "symbol" \notin DOMAIN ev THEN "KeyError"
    ELSE IF "date" \notin DOMAIN ev THEN "KeyError"
    ELSE IF "purpose" \notin DOMAIN ev THEN "KeyError"
    ELSE IF "bm_desc" \notin DOMAIN ev THEN "KeyError"
    ELSE IF SentimentRaises(ev["purpose"], ev["bm_desc"]) THEN "TypeError"
    ELSE "none"

DetailWithoutDate(ev, hist, today) ==
    LET s == purpose_sentiment(ev["purpose"], ev["bm_desc"])
    IN  Merge(Merge([k \in DOMAIN ev \ {"date"} |-> ev[k]],
                    [days_to_event    |-> days_to_event(ev["date"], today),
                     sentiment_score  |-> s[1],
                     sentiment_reason |-> s[2]]),
              fetch_price_features(hist))
\* lines 229-239: detail = {**ev, days_to_event, sentiment_*, **price}
Detail(ev, hist, today) ==
    LET s == purpose_sentiment(ev["purpose"], ev["bm_desc"])
    IN  Merge(Merge(ev, [days_to_event    |-> days_to_event(ev["date"], today),
                         sentiment_score  |-> s[1],
                         sentiment_reason |-> s[2]]),
              fetch_price_features(hist))

\* one iteration of the loop of lines 225-241
PrepareFeatures(env) ==
    /\ pc = "features"
    /\ \E hist \in env.hist, today \in env.today :
         LET ev == events[Len(rows) + 1] IN
         /\ historyCalls' = IF "symbol" \in DOMAIN ev
                             THEN Append(historyCalls, HistoryAttempts(hist))
                             ELSE historyCalls
         /\ IF FeatureError(ev) # "none"
            THEN /\ error' = FeatureError(ev)
                 /\ pc' = "aborted"
                 /\ rows' = rows
            ELSE /\ rows' = Append(rows, Detail(ev, hist, today))
                 /\ pc' = AfterFeatures(Len(rows) + 1)
                 /\ error' = error
    /\ UNCHANGED <<events, predictions, output, raw, responses, apiLog, limVars>>
    /\ UNCHANGED <<thrVars, epsVars, updVars, sentVars, fetchVars>>

\* lines 246-247 and 170: build_prompt, then throttle_requests() as one call.
\* extra is the time that passes during the call beyond the requested sleep.
ThrottleRequests(env) ==
    /\ pc = "throttle"
    /\ \E extra \in env.dur :
         LET now == clock
             q   == Purge(req_timestamps, now)
             wait == IF NeedsWait(q) THEN WaitFor(q, now) ELSE 0
             t   == now + wait + extra
         IN  /\ busy + extra <= MaxBusy
             /\ busy' = busy + extra
             /\ IF NeedsWait(q) /\ wait < 0
                THEN \* time.sleep raises ValueError on a negative argument
                     /\ error' = "ValueError"
                     /\ pc' = "aborted"
                     /\ req_timestamps' = q
                     /\ UNCHANGED <<clock, pausedAt, lastWait, acquired>>
                ELSE /\ clock' = t
                     /\ req_timestamps' = Append(q, t)
                     /\ acquired' = Append(acquired, t)
                     /\ pausedAt' = IF NeedsWait(q) THEN pausedAt \cup {Len(acquired) + 1}
                                    ELSE pausedAt
                     /\ lastWait' = IF NeedsWait(q) THEN wait ELSE lastWait
                     /\ pc' = "call"
                     /\ error' = error
    /\ UNCHANGED <<events, rows, predictions, output, raw, responses, apiLog>>
    /\ UNCHANGED <<historyCalls, thrVars, epsVars, updVars, sentVars, fetchVars>>

PrependPrediction(preds, rec) == <<rec>> \o preds
\* line 249: predictions.append(...)
AppendPrediction(preds, rec) == Append(preds, rec)

\* lines 249-254
PredictionRecord(detail, prediction) ==
    [symbol |-> detail["symbol"], company |-> detail["company"],
     input |-> detail, prediction |-> prediction]

\* lines 171-198 and 249-254: the API call, parsing, and the append.
\* d is the time the API call takes.
CallGroq(env) ==
    /\ pc = "call"
    /\ \E api \in env.api, text \in env.raw, d \in env.dur :
         LET detail == rows[Len(predictions) + 1] IN
         /\ busy + d <= MaxBusy
         /\ busy' = busy + d
         /\ clock' = clock + d
         /\ apiLog' = Append(apiLog, api)
         /\ IF api = "error"
            THEN /\ error' = "APIError"
                 /\ pc' = "aborted"
                 /\ UNCHANGED <<raw, responses, predictions>>
            ELSE /\ raw' = text
                 /\ responses' = responses + 1
                 /\ IF extract_json(text).raised
                    THEN /\ error' = "JSONDecodeError"
                         /\ pc' = "aborted"
                         /\ predictions' = predictions
                    ELSE /\ predictions' = AppendPrediction(predictions,
                                PredictionRecord(detail, ParsedOrFallback(text)))
                         /\ pc' = AfterPrediction(Len(predictions) + 1)
                         /\ error' = error
    /\ UNCHANGED <<events, rows, output, req_timestamps, pausedAt, lastWait, acquired>>
    /\ UNCHANGED <<historyCalls, thrVars, epsVars, updVars, sentVars, fetchVars>>

\* line 257
SaveOutput ==
    /\ pc = "save"
    /\ output' = predictions
    /\ pc' = "done"
    /\ UNCHANGED <<events, rows, predictions, error, raw, responses, apiLog, limVars>>
    /\ UNCHANGED <<historyCalls, thrVars, epsVars, updVars, sentVars, fetchVars>>

Next == PrepareFeatures(Env) \/ ThrottleRequests(Env) \/ CallGroq(Env) \/ SaveOutput
Spec == Init /\ [][Next]_vars

NextBatch == \/ PrepareFeatures(BatchEnv) \/ ThrottleRequests(BatchEnv)
             \/ CallGroq(BatchEnv) \/ SaveOutput
SpecBatch == InitBatch /\ [][NextBatch]_vars

NextParser == \/ PrepareFeatures(ParserEnv) \/ ThrottleRequests(ParserEnv)
              \/ CallGroq(ParserEnv) \/ SaveOutput
SpecParser == InitParser /\ [][NextParser]_vars

----------------------------------------------------------------------------
(* purpose_sentiment as a function of its two arguments:                    *)
(* src/ai_groq_predict_groq.py lines 136-150, called at line 231.           *)

MaxWords == 2     \* longest purpose and longest bm_desc, in words

\* words of announcements: keywords in the capitalisation of the feed, the
\* parts of a two-word dilution term, and a word no rule looks for
SentimentWords == {"Dividend", "Results", "Rights", "issue", "preferential", "Board"}
SentimentTexts == ListsUpTo(SentimentWords, MaxWords)

InitSentiment ==
    /\ \E p \in SentimentTexts, b \in SentimentTexts :
          sentIn = [purpose |-> Str(p), bm_desc |-> Str(b)]
    /\ sentOut = NotScored
    /\ ThreadsOff
    /\ EpsOff
    /\ UpdateOff
    /\ PipelineOff
    /\ InitLimiter
    /\ FetchOff

\* line 231: one call of purpose_sentiment
ScoreSentiment ==
    /\ sentIn # NoArgs
    /\ sentOut = NotScored
    /\ sentOut' = purpose_sentiment(sentIn.purpose, sentIn.bm_desc)
    /\ UNCHANGED <<sentIn, pipeVars, limVars, thrVars, epsVars, updVars, fetchVars>>

NextSentiment == ScoreSentiment
SpecSentiment == InitSentiment /\ [][NextSentiment]_vars

----------------------------------------------------------------------------
(* safe_fetch_forward_eps: src/update_eps.py lines 13-45.                   *)
(* Delays are in ticks of 0.1 s.                                            *)

RECURSIVE Pow(_, _)
Pow(b, e) == IF e = 0 THEN 1 ELSE b * Pow(b, e - 1)

\* what one lookup (lines 29-31) gives: an exception, info without
\* "forwardEps" (None), or a number
Raised == [t |-> "raised"]
LookupOutcomes == {Raised, None, Num(0), Num(12)}

FoundTruthy(eps) == eps # Raised /\ Truthy(eps)
\* line 32: eps is not None (of a lookup that did not raise)
Found(eps) == eps # Raised /\ eps # None

LastAttemptEarly(a) == a = params.MAX_RETRIES - 1
\* line 38: attempt == MAX_RETRIES
LastAttempt(a) == a = params.MAX_RETRIES

\* line 41: BASE_DELAY * (BACKOFF_FACTOR ** (attempt - 1))
Backoff(a) == params.BASE_DELAY * Pow(params.BACKOFF_FACTOR, a - 1)

\* line 42: random.uniform(-RANDOM_JITTER, RANDOM_JITTER)
Jitters == (0 - params.RANDOM_JITTER)..params.RANDOM_JITTER

InitEpsWith(settings) ==
    /\ params = settings
    /\ epc = "try"
    /\ attempt = 1
    /\ lookups = <<>>
    /\ slept = <<>>
    /\ epsResult = None
    /\ ThreadsOff
    /\ PipelineOff
    /\ UpdateOff
    /\ SentimentOff
    /\ InitLimiter
    /\ FetchOff

InitEps == InitEpsWith(ProgramParams)
InitEpsSettings == \E settings \in ParamSettings : InitEpsWith(settings)

\* one iteration of the loop of lines 27-44
FetchAttempt ==
    /\ epc = "try"
    /\ \E eps \in LookupOutcomes, jitter \in Jitters :
         LET delay == Backoff(attempt) + jitter IN
         /\ lookups' = Append(lookups, eps)
         /\ IF Found(eps)
            THEN /\ epsResult' = eps
                 /\ epc' = "returned"
                 /\ UNCHANGED <<attempt, slept>>
            ELSE IF LastAttempt(attempt)
            THEN /\ epsResult' = None
                 /\ epc' = "returned"
                 /\ UNCHANGED <<attempt, slept>>
            ELSE IF delay < 0
            THEN \* time.sleep raises ValueError inside the except block
                 /\ epc' = "raised"
                 /\ UNCHANGED <<attempt, slept, epsResult>>
            ELSE /\ slept' = Append(slept, delay)
                 /\ attempt' = attempt + 1
                 \* line 45: the loop is over when range() is exhausted
                 /\ epc' = IF attempt + 1 > params.MAX_RETRIES THEN "returned" ELSE "try"
                 /\ epsResult' = None
    /\ UNCHANGED <<params, pipeVars, limVars, thrVars, updVars, sentVars, fetchVars>>

NextEps == FetchAttempt
SpecEps == InitEps /\ [][NextEps]_vars

\* the same function under other settings of lines 13-16
SpecEpsSettings == InitEpsSettings /\ [][NextEps]_vars

----------------------------------------------------------------------------
(* update_events_with_eps: src/update_eps.py lines 46-88 *)

MaxEntries == 3     \* longest events.json list

\* dict.get(k): None for a missing key
Get(entry, k) == IF k \in DOMAIN entry THEN entry[k] ELSE None

\* entries of events.json: the symbol is a name, the empty string, null, or
\* missing
EntrySymbols == Symbols \cup {Str(<<>>), None, Absent}
Entry(sym) == Merge([company |-> Str(<<"Co">>)], Opt("symbol", sym))
Entries == {Entry(sym) : sym \in EntrySymbols}

\* line 60: {entry.get("symbol") for entry in data if entry.get("symbol")}
SymbolsOf(d) ==
    {Get(d[i], "symbol") : i \in {j \in 1..Len(d) : Truthy(Get(d[j], "symbol"))}}

\* what safe_fetch_forward_eps returns under the settings of lines 13-16:
\* the value of a lookup that found one, or None
EpsReturns == {None} \cup {o \in LookupOutcomes : Found(o)}

InitUpdate ==
    /\ \E d \in ListsUpTo(Entries, MaxEntries) :
          /\ data = d
          /\ symbolsLeft = SymbolsOf(d)
    /\ eps_cache = EmptyDict
    /\ fetchCalls = <<>>
    /\ upc = "fetch"
    /\ ThreadsOff
    /\ EpsOff
    /\ SentimentOff
    /\ PipelineOff
    /\ InitLimiter
    /\ FetchOff

\* one iteration of the loop of lines 66-75, on whichever symbol the set
\* yields next
FetchSymbol ==
    /\ upc = "fetch"
    /\ \E symbol \in symbolsLeft, eps \in EpsReturns :
         /\ symbolsLeft' = symbolsLeft \ {symbol}
         /\ IF ~Truthy(symbol) \/ symbol \in DOMAIN eps_cache
            THEN UNCHANGED <<eps_cache, fetchCalls>>
            ELSE /\ eps_cache' = Merge(eps_cache, [x \in {symbol} |-> eps])
                 /\ fetchCalls' = Append(fetchCalls, [symbol |-> symbol, eps |-> eps])
    /\ UNCHANGED <<data, upc, pipeVars, limVars, thrVars, epsVars, sentVars, fetchVars>>

UpdatedEntryIfFound(entry, cache) ==
    IF Get(entry, "symbol") \in DOMAIN cache /\ cache[Get(entry, "symbol")] # None
    THEN Merge(entry, [estimated_EPS |-> cache[Get(entry, "symbol")]])
    ELSE entry
\* lines 79-81
UpdatedEntry(entry, cache) ==
    IF Get(entry, "symbol") \in DOMAIN cache
    THEN Merge(entry, [estimated_EPS |-> cache[Get(entry, "symbol")]])
    ELSE entry

\* lines 78-85: the update of every entry and the write of the file
UpdateEntries ==
    /\ upc = "fetch"
    /\ symbolsLeft = {}
    /\ data' = [i \in 1..Len(data) |-> UpdatedEntry(data[i], eps_cache)]
    /\ upc' = "done"
    /\ UNCHANGED <<symbolsLeft, eps_cache, fetchCalls>>
    /\ UNCHANGED <<pipeVars, limVars, thrVars, epsVars, sentVars, fetchVars>>

NextUpdate == FetchSymbol \/ UpdateEntries
SpecUpdate == InitUpdate /\ [][NextUpdate]_vars

----------------------------------------------------------------------------
(* fetch_events and main: src/fetch_and_save.py lines 29-65.                *)
(* The sleeps of lines 39, 49, 53 and 58 change no variable of the function *)
(* and are not part of the state.                                           *)

MaxRetries == 4     \* largest `retries` argument; 4 is the default of line 29

\* what resp.json() returns: a list of events, an empty list, or JSON null
Payloads == {List(<<"event">>), List(<<>>), None}

\* what one pass through lines 40-42 does: it returns a payload; or
\* raise_for_status raises HTTPError with a status (None when the error
\* carries no response); or the GET raises another RequestException; or
\* resp.json() raises on an invalid body, which is a RequestException in
\* requests >= 2.27 and a plain ValueError before.
AttemptOutcomes ==
    {[kind |-> "ok", payload |-> p] : p \in Payloads}
    \cup {[kind |-> "HTTPError", status |-> st] : st \in {Num(429), Num(403), Num(500), None}}
    \cup {[kind |-> "RequestException"], [kind |-> "ValueError"]}

RateLimited429Only(status) == status = Num(429)
\* line 46: status in (429, 403)
RateLimited(status) == status \in {Num(429), Num(403)}

\* lines 43 and 54: the except clauses catch HTTPError and RequestException
Caught(o) == o.kind \in {"HTTPError", "RequestException"}
\* lines 46-49: the branch that backs off and never raises
BacksOff(o) == o.kind = "HTTPError" /\ RateLimited(o.status)

InitFetch ==
    /\ fpc = "warmup"
    /\ retries \in 0..MaxRetries
    /\ fattempt = 0
    /\ fetchLog = <<>>
    /\ fresult = None
    /\ saved = NothingSaved
    /\ ThreadsOff
    /\ EpsOff
    /\ UpdateOff
    /\ SentimentOff
    /\ PipelineOff
    /\ InitLimiter

\* lines 30-37: the warm-up GET, whose failure is ignored, and the loop entry
WarmUp ==
    /\ fpc = "warmup"
    /\ \E warmupFailed \in BOOLEAN :
         /\ fattempt' = IF retries >= 1 THEN 1 ELSE fattempt
         /\ fpc' = IF retries >= 1 THEN "attempt" ELSE "returned"
    /\ UNCHANGED <<retries, fetchLog, fresult, saved>>
    /\ UNCHANGED <<pipeVars, limVars, thrVars, epsVars, updVars, sentVars>>

\* one iteration of the loop of lines 37-58
ApiAttempt ==
    /\ fpc = "attempt"
    /\ \E o \in AttemptOutcomes :
         /\ fetchLog' = Append(fetchLog, o)
         /\ IF o.kind = "ok"
            THEN /\ fresult' = o.payload
                 /\ fpc' = "returned"
                 /\ fattempt' = fattempt
            ELSE IF ~Caught(o) \/ (~BacksOff(o) /\ fattempt = retries)
            THEN \* uncaught, or re-raised at line 52 or 57
                 /\ fpc' = "raised"
                 /\ UNCHANGED <<fattempt, fresult>>
            ELSE \* slept; the function ends without `return` when range() is exhausted
                 /\ fattempt' = IF fattempt < retries THEN fattempt + 1 ELSE fattempt
                 /\ fpc' = IF fattempt < retries THEN "attempt" ELSE "returned"
                 /\ fresult' = None
    /\ UNCHANGED <<retries, saved>>
    /\ UNCHANGED <<pipeVars, limVars, thrVars, epsVars, updVars, sentVars>>

\* lines 62-64: main writes what fetch_events returned
SaveEvents ==
    /\ fpc = "returned"
    /\ saved' = fresult
    /\ fpc' = "saved"
    /\ UNCHANGED <<retries, fattempt, fetchLog, fresult>>
    /\ UNCHANGED <<pipeVars, limVars, thrVars, epsVars, updVars, sentVars>>

NextFetch == WarmUp \/ ApiAttempt \/ SaveEvents
SpecFetch == InitFetch /\ [][NextFetch]_vars

----------------------------------------------------------------------------
(* throttle_requests called by concurrent threads that share req_timestamps: *)
(* src/ai_groq_predict_groq.py lines 61-72, one statement per step.          *)

Threads == {1, 2}
CallsPerThread == 16     \* calls each thread makes

InitThreads ==
    /\ tpc = [t \in Threads |-> "idle"]
    /\ tnow = [t \in Threads |-> 0]
    /\ twait = [t \in Threads |-> 0]
    /\ twake = [t \in Threads |-> 0]
    /\ tcalls = [t \in Threads |-> 0]
    /\ InitLimiter
    /\ FetchOff
    /\ PipelineOff
    /\ EpsOff
    /\ UpdateOff
    /\ SentimentOff

\* line 64: now = time.time()
T_ReadNow(t) ==
    /\ tpc[t] = "idle"
    /\ tcalls[t] < CallsPerThread
    /\ tnow' = [tnow EXCEPT ![t] = clock]
    /\ tpc' = [tpc EXCEPT ![t] = "purge"]
    /\ UNCHANGED <<twait, twake, tcalls, limVars, pipeVars, epsVars, updVars, sentVars, fetchVars>>

\* line 66: while req_timestamps and now - req_timestamps[0] > 60
T_PurgeTest(t) ==
    /\ tpc[t] = "purge"
    /\ tpc' = [tpc EXCEPT ![t] =
                 IF req_timestamps # <<>> /\ tnow[t] - Head(req_timestamps) > WINDOW
                 THEN "pop" ELSE "check"]
    /\ UNCHANGED <<tnow, twait, twake, tcalls, limVars, pipeVars, epsVars, updVars, sentVars, fetchVars>>

\* line 67: req_timestamps.popleft(); IndexError on an empty deque
T_PopLeft(t) ==
    /\ tpc[t] = "pop"
    /\ IF req_timestamps = <<>>
       THEN /\ tpc' = [tpc EXCEPT ![t] = "raised"]
            /\ UNCHANGED req_timestamps
       ELSE /\ req_timestamps' = Tail(req_timestamps)
            /\ tpc' = [tpc EXCEPT ![t] = "purge"]
    /\ UNCHANGED <<tnow, twait, twake, tcalls, clock, busy, pausedAt, lastWait, acquired>>
    /\ UNCHANGED <<pipeVars, epsVars, updVars, sentVars, fetchVars>>

\* lines 68-69: the length test and the computation of wait
T_LenTest(t) ==
    /\ tpc[t] = "check"
    /\ IF NeedsWait(req_timestamps)
       THEN /\ twait' = [twait EXCEPT ![t] = WaitFor(req_timestamps, tnow[t])]
            /\ tpc' = [tpc EXCEPT ![t] = "sleep"]
       ELSE /\ tpc' = [tpc EXCEPT ![t] = "append"]
            /\ UNCHANGED twait
    /\ UNCHANGED <<tnow, twake, tcalls, limVars, pipeVars, epsVars, updVars, sentVars, fetchVars>>

\* line 71: time.sleep(wait) begins; ValueError on a negative argument
T_Sleep(t) ==
    /\ tpc[t] = "sleep"
    /\ IF twait[t] < 0
       THEN /\ tpc' = [tpc EXCEPT ![t] = "raised"]
            /\ UNCHANGED twake
       ELSE /\ twake' = [twake EXCEPT ![t] = clock + twait[t]]
            /\ tpc' = [tpc EXCEPT ![t] = "sleeping"]
    /\ UNCHANGED <<tnow, twait, tcalls, limVars, pipeVars, epsVars, updVars, sentVars, fetchVars>>

\* line 71: time.sleep(wait) returns, not before the time asked for
T_Wake(t) ==
    /\ tpc[t] = "sleeping"
    /\ clock >= twake[t]
    /\ tpc' = [tpc EXCEPT ![t] = "append"]
    /\ UNCHANGED <<tnow, twait, twake, tcalls, limVars, pipeVars, epsVars, updVars, sentVars, fetchVars>>

\* line 72: req_timestamps.append(time.time())
T_Append(t) ==
    /\ tpc[t] = "append"
    /\ req_timestamps' = Append(req_timestamps, clock)
    /\ acquired' = Append(acquired, clock)
    /\ tcalls' = [tcalls EXCEPT ![t] = tcalls[t] + 1]
    /\ tpc' = [tpc EXCEPT ![t] = "idle"]
    /\ UNCHANGED <<tnow, twait, twake, clock, busy, pausedAt, lastWait>>
    /\ UNCHANGED <<pipeVars, epsVars, updVars, sentVars, fetchVars>>

Sleeping == {t \in Threads : tpc[t] = "sleeping" /\ twake[t] > clock}

\* time passes until the earliest sleeper is due
TimeToWake ==
    /\ Sleeping # {}
    /\ clock' = Min({twake[t] : t \in Sleeping})
    /\ UNCHANGED <<req_timestamps, busy, pausedAt, lastWait, acquired>>
    /\ UNCHANGED <<thrVars, pipeVars, epsVars, updVars, sentVars, fetchVars>>

\* time passes while the threads are busy elsewhere
TimePasses ==
    /\ \E d \in {WINDOW + EPSILON} :
         /\ busy + d <= MaxBusy
         /\ busy' = busy + d
         /\ clock' = clock + d
    /\ UNCHANGED <<req_timestamps, pausedAt, lastWait, acquired>>
    /\ UNCHANGED <<thrVars, pipeVars, epsVars, updVars, sentVars, fetchVars>>

NextThreads ==
    \/ \E t \in Threads :
         \/ T_ReadNow(t) \/ T_PurgeTest(t) \/ T_PopLeft(t) \/ T_LenTest(t)
         \/ T_Sleep(t) \/ T_Wake(t) \/ T_Append(t)
    \/ TimeToWake
    \/ TimePasses
SpecThreads == InitThreads /\ [][NextThreads]_vars

----------------------------------------------------------------------------
(* Claims about the rate limiter with a single caller (SpecBatch) *)

\* acquisitions recorded in the closed 60 s window that ends at time T
InWindow(T) == {k \in 1..Len(acquired) : T - WINDOW <= acquired[k] /\ acquired[k] <= T}

\* C1: under a single caller, whatever time elapses between and during the
\* calls, every trailing 60-second window holds at most MAX_REQS_PER_MIN
\* recorded acquisitions.  (A window holds the most acquisitions when it ends
\* at one of them.)
C1_WindowBound ==
    \A j \in 1..Len(acquired) : Cardinality(InWindow(acquired[j])) <= MAX_REQS_PER_MIN

\* C1 witness: more calls than the limit were made, the limiter slept for two
\* of them, and time also passed outside the sleeps.
C1_Witness ==
    /\ Len(acquired) > MAX_REQS_PER_MIN + 1
    /\ Cardinality(pausedAt) >= 2
    /\ busy > 0

\* the output holds one record per input entity, in input order
OutputInOrder ==
    /\ output # NotWritten
    /\ Len(output) = Len(events)
    /\ \A i \in 1..Len(events) :
         /\ output[i].symbol = events[i]["symbol"]
         /\ output[i].company = events[i]["company"]
         /\ \A k \in DOMAIN events[i] : output[i].input[k] = events[i][k]

\* C8 as stated: a batch of BatchSize (35) entities under the limit of 30 per
\* 60 s sleeps exactly once, before the 31st inference call, whatever the
\* durations of the inference calls, and the output has one record per entity
\* in input order.
C8_ExactlyOnePause ==
    (pc = "done" /\ Len(events) = BatchSize) =>
        /\ pausedAt = {MAX_REQS_PER_MIN + 1}
        /\ OutputInOrder

\* C8 amended: no call before the 31st sleeps and each later call sleeps at
\* most once (zero to BatchSize - 30 sleeps in all); when no time passes
\* outside the sleeps, exactly the 31st call sleeps; and an output that is
\* written has one record per entity in input order.
C8_PausesBounded ==
    /\ pausedAt \subseteq (MAX_REQS_PER_MIN + 1)..Len(events)
    /\ (busy = 0 /\ Len(acquired) > MAX_REQS_PER_MIN) => pausedAt = {MAX_REQS_PER_MIN + 1}
    /\ pc = "done" => OutputInOrder

\* C8 witness: a completed batch run in which more than one call slept
C8_Witness ==
    /\ pc = "done"
    /\ Len(output) = BatchSize
    /\ Cardinality(pausedAt) > 1

\* C19: a call that sleeps computes a sleep duration that is strictly
\* positive and at most 60.1 s, and never a negative one; the timestamp it
\* records is read after the sleep: it is at least the sleep later than the
\* previous recorded timestamp, and at least 60.1 s later than the timestamp
\* recorded MAX_REQS_PER_MIN calls earlier (the head of the purged queue).
C19_SleepBounded ==
    /\ error # "ValueError"
    /\ pausedAt # {} =>
          /\ 0 < lastWait /\ lastWait <= WINDOW + EPSILON
          /\ acquired[Max(pausedAt)] >= acquired[Max(pausedAt) - 1] + lastWait
    /\ \A k \in pausedAt :
          /\ k > MAX_REQS_PER_MIN
          /\ acquired[k] >= acquired[k - MAX_REQS_PER_MIN] + WINDOW + EPSILON

\* C19 witness: a call slept for less than the full 60.1 s, because time had
\* passed since the oldest timestamp of the window
C19_Witness ==
    /\ pausedAt # {}
    /\ lastWait < WINDOW + EPSILON
    /\ busy > 0

----------------------------------------------------------------------------
(* Claims about the run as a whole (Spec) *)

\* C2: an inference call that raises is caught: the run is not ended, and the
\* entity of that call receives the fallback prediction.
C2_InferenceErrorCaught ==
    \A k \in 1..Len(apiLog) :
        apiLog[k] = "error" =>
            /\ pc # "aborted"
            /\ Len(predictions) >= k
            /\ predictions[k].prediction = FALLBACK

\* C4: the run never stops with an entity that has no prediction: it is never
\* ended by an exception, and when it has ended the output holds a record for
\* every entity.
C4_EveryEntityParsed ==
    /\ pc # "aborted"
    /\ pc = "done" => (output # NotWritten /\ Len(output) = Len(events))

\* C9: when the run completes, the output holds exactly one record per input
\* entity, and the i-th record carries the symbol, the company and the fields
\* of the i-th input entity.
C9_OrderPreserved == pc = "done" => OutputInOrder

\* C9 witness: a completed run over two entities with different symbols
C9_Witness ==
    /\ pc = "done"
    /\ Len(events) = 2
    /\ events[1]["symbol"] # events[2]["symbol"]
    /\ Len(output) = 2

\* the field is missing from the entity: the key is absent or its value is null
Missing(ev, k) == k \notin DOMAIN ev \/ ev[k] = None

\* C10: an entity whose date, purpose or bm_desc is missing does not end the
\* run: once main has reached it, it has an enriched record, in which
\* days_to_event is null when the date is the missing field.
C10_MissingFieldCompletes ==
    \A i \in 1..Len(events) :
        (/\ \E k \in {"date", "purpose", "bm_desc"} : Missing(events[i], k)
         /\ Len(rows) >= i - 1
         /\ pc # "features" \/ Len(rows) >= i)
        => /\ Len(rows) >= i
           /\ Missing(events[i], "date") => rows[i]["days_to_event"] = None

DerivedKeys == {"days_to_event", "sentiment_score", "sentiment_reason"}
PriceKeys   == {"last_price", "pct_7", "pct_30", "sma20", "vol_30"}

\* every enriched record holds every field of its entity with the entity's
\* value, the three derived fields, and either no price feature or all five
EnrichedRecordsOK ==
    \A i \in 1..Len(rows) :
        /\ \A k \in DOMAIN events[i] : k \in DOMAIN rows[i] /\ rows[i][k] = events[i][k]
        /\ DerivedKeys \subseteq DOMAIN rows[i]
        /\ rows[i]["sentiment_score"].t = "num"
        /\ rows[i]["sentiment_reason"].t = "str"
        /\ (DOMAIN rows[i] \ (DOMAIN events[i] \cup DerivedKeys)) \in {{}, PriceKeys}

\* C18: no step of the run changes the loaded events list, and after every
\* step each enriched record holds every field of its entity, the fields
\* days_to_event, sentiment_score and sentiment_reason, and the price features
\* that were fetched.
C18_SourceEntityKept == [][events' = events /\ EnrichedRecordsOK']_vars

\* C18 witness: two entities are enriched, one with price features and one
\* without, and the inference phase has started
C18_Witness ==
    /\ Len(rows) = 2
    /\ Len(acquired) > 0
    /\ "last_price" \in DOMAIN rows[1]
    /\ "last_price" \notin DOMAIN rows[2]

\* C15: the price features of an enriched record are absent only after the
\* price-history lookup of that entity was retried: an entity whose record has
\* no price features had more than one tk.history() call.
C15_PriceLookupRetried ==
    \A i \in 1..Len(rows) :
        "last_price" \notin DOMAIN rows[i] => historyCalls[i] > 1

\* the date of the entity is a string that is empty or does not parse
UnparsableDate(ev) ==
    /\ "date" \in DOMAIN ev
    /\ ev["date"].t = "str"
    /\ ev["date"].s \notin ParsableDates

\* C11: an entity whose date string is empty or unparsable gets days_to_event
\* = null in its enriched record, and once its enrichment is done the run is
\* not ended before that entity has its prediction.
C11_BadDateReachesParsed ==
    \A i \in 1..Len(events) :
        UnparsableDate(events[i]) =>
            /\ Len(rows) >= i => rows[i]["days_to_event"] = None
            /\ ~(/\ pc = "aborted"
                 /\ Len(rows) = Len(events)
                 /\ Len(predictions) = i - 1)

\* C17: the inference calls issued are as many as the acquisitions recorded,
\* or one fewer (exactly while main is between an acquisition and its call);
\* every entity reached gets one call, and a completed run has made one call
\* per entity.
C17_CallAfterAcquire ==
    /\ Len(apiLog) \in {Len(acquired), Len(acquired) - 1}
    /\ Len(apiLog) = Len(acquired) - 1 <=> pc = "call"
    /\ Len(apiLog) \in {Len(predictions), Len(predictions) + 1}
    /\ pc = "done" => Len(apiLog) = Len(events)

\* C17 witness: a completed run of two entities, two acquisitions, two calls
C17_Witness ==
    /\ pc = "done"
    /\ Len(events) = 2
    /\ Len(acquired) = 2
    /\ Len(apiLog) = 2

\* C20: no acquisition and no inference call is made before every entity has
\* its enriched record, so no entity has a prediction while another has no
\* enriched record.
C20_PhaseBarrier ==
    (Len(acquired) > 0 \/ Len(apiLog) > 0 \/ Len(predictions) > 0 \/ pc = "call")
        => Len(rows) = Len(events)

\* C20 witness: the first acquisition of a run of two entities has been made
\* and no inference call yet
C20_Witness ==
    /\ Len(events) = 2
    /\ Len(rows) = 2
    /\ Len(acquired) = 1
    /\ Len(apiLog) = 0

----------------------------------------------------------------------------
(* Claims about purpose_sentiment (SpecSentiment) *)

\* the lower-cased text the scorer looks at: purpose, then bm_desc
ScoredText == LowerAll(sentIn.purpose.s \o sentIn.bm_desc.s)
Mentions(w) == \E i \in 1..Len(ScoredText) : ScoredText[i] = w
MentionsPair(w1, w2) ==
    \E i \in 1..(Len(ScoredText) - 1) : ScoredText[i] = w1 /\ ScoredText[i + 1] = w2
DividendRule == Mentions("dividend")
ResultsRule  == Mentions("results")
DilutionRule ==
    \/ MentionsPair("rights", "issue") \/ MentionsPair("fund", "raising")
    \/ Mentions("preferential") \/ MentionsPair("capital", "raise")
Ind(b) == IF b THEN 1 ELSE 0

\* C13: the score is 0.2 if the lower-cased text mentions "dividend", plus
\* 0.05 if it mentions "results", minus 0.3 if it mentions a dilution term,
\* each rule on its own; the reasons are "dividend mentioned" then
\* "dilution-related terms" for exactly the rules that fired ("results" gives
\* no reason).  Dividend alone scores 0.2, a rights issue alone -0.3, both
\* together -0.1.  (Scores in hundredths.)
C13_SentimentRules ==
    sentOut # NotScored =>
        /\ sentOut[1] = Num(20 * Ind(DividendRule) + 5 * Ind(ResultsRule)
                            - 30 * Ind(DilutionRule))
        /\ sentOut[2] = Str((IF DividendRule THEN <<"dividend mentioned">> ELSE <<>>)
                            \o (IF DilutionRule THEN <<"dilution-related terms">> ELSE <<>>))
        /\ (DividendRule /\ ~ResultsRule /\ ~DilutionRule) => sentOut[1] = Num(20)
        /\ (~DividendRule /\ ~ResultsRule /\ DilutionRule) => sentOut[1] = Num(0 - 30)
        /\ (DividendRule /\ ~ResultsRule /\ DilutionRule) => sentOut[1] = Num(0 - 10)

\* C13 witness: "Dividend" as purpose and "Rights issue" as bm_desc scored
\* -0.1 with both reasons
C13_Witness ==
    /\ sentIn = [purpose |-> Str(<<"Dividend">>), bm_desc |-> Str(<<"Rights", "issue">>)]
    /\ sentOut = <<Num(0 - 10), Str(<<"dividend mentioned", "dilution-related terms">>)>>

----------------------------------------------------------------------------
(* Claims about the response parser (SpecParser) *)

\* the raw text has no "{...}" substring, or has one that is not JSON
Undecodable(text) == ~HasMatch(text) \/ ~Decodes(MatchOf(text))

\* C3: parsing never raises: whenever the latest raw text has no "{...}"
\* substring or one that fails to decode, the call produced the fixed fallback
\* prediction for its entity.
C3_ParserNeverRaises ==
    (responses > 0 /\ Undecodable(raw)) =>
        /\ error # "JSONDecodeError"
        /\ Len(predictions) = responses
        /\ predictions[responses].prediction = FALLBACK

\* C14: whenever the "{...}" substring of the raw text decodes, the call
\* produces the decoded value as it is, an object without fields included;
\* the fallback is produced only for a text without such a substring or with
\* one that does not decode.
C14_DecodedReturnedAsIs ==
    /\ (responses > 0 /\ ~Undecodable(raw)) =>
           /\ Len(predictions) = responses
           /\ predictions[responses].prediction = JsonLoads(MatchOf(raw))
    /\ (responses > 0 /\ Len(predictions) = responses
          /\ predictions[responses].prediction = FALLBACK) => Undecodable(raw)

----------------------------------------------------------------------------
(* Claims about safe_fetch_forward_eps (SpecEps) *)

Failed(o) == o = Raised \/ o = None
AllFailed(l) == \A i \in 1..Len(l) : Failed(l[i])

\* C5: a lookup that fails k < MAX_RETRIES times and then succeeds makes
\* safe_fetch_forward_eps return the success value after exactly k+1 lookups:
\* it keeps trying while fewer than MAX_RETRIES lookups have all failed, every
\* lookup before a success is a failure, and a success ends the call with
\* that value.
C5_ReturnsFirstSuccess ==
    /\ (AllFailed(lookups) /\ Len(lookups) < MAX_RETRIES) =>
           (epc = "try" /\ attempt = Len(lookups) + 1)
    /\ \A i \in 1..Len(lookups) :
           ~Failed(lookups[i]) =>
               /\ i = Len(lookups)
               /\ AllFailed(SubSeq(lookups, 1, i - 1))
               /\ epc = "returned"
               /\ epsResult = lookups[i]

\* C5 witness: two transient failures of both kinds, then a value on the
\* third lookup
C5_Witness ==
    /\ epc = "returned"
    /\ Len(lookups) = 3
    /\ lookups[1] = Raised /\ lookups[2] = None /\ lookups[3] = Num(0)
    /\ epsResult = Num(0)

\* C6: when every lookup fails, safe_fetch_forward_eps returns None after
\* exactly MAX_RETRIES lookups, and it never raises.
C6_NotFoundAfterMaxRetries ==
    /\ epc # "raised"
    /\ (epc = "returned" /\ AllFailed(lookups)) =>
           (epsResult = None /\ Len(lookups) = MAX_RETRIES)
    /\ (AllFailed(lookups) /\ Len(lookups) = MAX_RETRIES) => epc = "returned"

\* C6 witness: the call has returned after MAX_RETRIES failed lookups, with
\* an exception and a missing value among them
C6_Witness ==
    /\ epc = "returned"
    /\ Len(lookups) = MAX_RETRIES
    /\ AllFailed(lookups)
    /\ \E i, j \in 1..Len(lookups) : lookups[i] = Raised /\ lookups[j] = None

\* C16: the delay slept after failed attempt a lies within RANDOM_JITTER of
\* BASE_DELAY * BACKOFF_FACTOR^(a-1) and, under every setting of the
\* parameters, is non-negative, so that no negative delay ever reaches
\* time.sleep; no delay is slept after the last failed attempt.
C16_DelayClampedInRange ==
    /\ epc # "raised"
    /\ Len(slept) < params.MAX_RETRIES
    /\ \A a \in 1..Len(slept) :
          /\ slept[a] >= 0
          /\ Backoff(a) - params.RANDOM_JITTER <= slept[a]
          /\ slept[a] <= Backoff(a) + params.RANDOM_JITTER

----------------------------------------------------------------------------
(* Claims about update_events_with_eps (SpecUpdate) *)

\* C12: within one run, safe_fetch_forward_eps is called at most once for
\* each distinct symbol, however often the symbol occurs in the list, and
\* when the run is over every entry that carries a symbol has as its
\* estimated_EPS the value that the one call for its symbol returned.
C12_OneLookupPerSymbol ==
    /\ \A i, j \in 1..Len(fetchCalls) :
           fetchCalls[i].symbol = fetchCalls[j].symbol => i = j
    /\ upc = "done" =>
           \A i \in 1..Len(data) :
               Truthy(Get(data[i], "symbol")) =>
                   \E k \in 1..Len(fetchCalls) :
                       /\ fetchCalls[k].symbol = data[i]["symbol"]
                       /\ "estimated_EPS" \in DOMAIN data[i]
                       /\ data[i]["estimated_EPS"] = fetchCalls[k].eps

\* C12 witness: symbol A occurs twice and symbol B once; two calls were made,
\* one found a value and one did not, and the run is over
C12_Witness ==
    /\ upc = "done"
    /\ Len(data) = 3
    /\ Get(data[1], "symbol") = Str(<<"A">>)
    /\ Get(data[2], "symbol") = Str(<<"B">>)
    /\ Get(data[3], "symbol") = Str(<<"A">>)
    /\ Len(fetchCalls) = 2
    /\ Get(data[1], "estimated_EPS") = Num(12)
    /\ Get(data[2], "estimated_EPS") = None
    /\ Get(data[3], "estimated_EPS") = Num(12)

----------------------------------------------------------------------------
(* Claims about fetch_events (SpecFetch) *)

LastOutcome == fetchLog[Len(fetchLog)]
FetchReturned == fpc \in {"returned", "saved"}
Is429or403(o) == o.kind = "HTTPError" /\ (o.status = Num(429) \/ o.status = Num(403))

\* C21: fetch_events makes at most `retries` API attempts.  When its last
\* attempt failed with HTTP 429 or 403 it has returned None and not raised;
\* when its last attempt failed in any other way it has raised; and a
\* returned payload is that of its last attempt, which succeeded after
\* nothing but failures.
C21_OutcomeByLastFailure ==
    /\ Len(fetchLog) <= retries
    /\ fpc = "attempt" => Len(fetchLog) < retries
    /\ fetchLog # <<>> =>
          /\ (Len(fetchLog) = retries /\ Is429or403(LastOutcome)) =>
                 (FetchReturned /\ fresult = None)
          /\ (Len(fetchLog) = retries /\ LastOutcome.kind # "ok" /\ ~Is429or403(LastOutcome)) =>
                 fpc = "raised"
          /\ fpc = "raised" => (LastOutcome.kind # "ok" /\ ~Is429or403(LastOutcome))
          /\ LastOutcome.kind = "ok" => (FetchReturned /\ fresult = LastOutcome.payload)
          /\ \A i \in 1..(Len(fetchLog) - 1) : fetchLog[i].kind # "ok"
    /\ (FetchReturned /\ fresult # None) => (fetchLog # <<>> /\ LastOutcome.kind = "ok")
    /\ fpc = "saved" => saved = fresult

\* C21 witness: the default four attempts all failed, among them a server
\* error and a request exception, the last with 403; None was returned and
\* written
C21_Witness ==
    /\ fpc = "saved"
    /\ retries = 4
    /\ Len(fetchLog) = 4
    /\ fetchLog[1] = [kind |-> "HTTPError", status |-> Num(500)]
    /\ fetchLog[2] = [kind |-> "RequestException"]
    /\ fetchLog[4] = [kind |-> "HTTPError", status |-> Num(403)]
    /\ saved = None

\* C21 second case: the last of four attempts failed with a server error
\* after rate-limit answers, and the function raised
C21_WitnessRaised ==
    /\ fpc = "raised"
    /\ Len(fetchLog) = 4
    /\ fetchLog[3] = [kind |-> "HTTPError", status |-> Num(429)]
    /\ fetchLog[4] = [kind |-> "HTTPError", status |-> Num(500)]

----------------------------------------------------------------------------
(* Claims about the rate limiter shared by concurrent callers (SpecThreads) *)

\* C7: with req_timestamps shared by concurrent callers, the queue is mutated
\* by one caller at a time, so that under every interleaving no caller fails
\* on the queue and every trailing 60-second window holds at most
\* MAX_REQS_PER_MIN acquisitions.
C7_SharedWindowBound ==
    /\ \A t \in DOMAIN tpc : tpc[t] # "raised"
    /\ \A j \in 1..Len(acquired) :
         Cardinality(InWindow(acquired[j])) <= MAX_REQS_PER_MIN

====
